---- MODULE Spec2Model ----
(***************************************************************************)
(* Model of generatePDFs.py: Notion rows -> Google Docs template -> PDFs.   *)
(* Strings are sequences of one-character strings.  Python values (JSON)   *)
(* are tagged records: None, str, num, bool, list, dict.                   *)
(***************************************************************************)
EXTENDS Integers, Sequences, FiniteSets, TLC

VARIABLES
    pc,         \* position of main(): "idle" when only a function harness runs
    err,        \* message of the fatal error that ended the run, "" if none
    DELETE_INTERMEDIATE_DOCS,   \* cleanup toggle read from the environment
    GOOGLE_TEMPLATE_DOC_ID,     \* template document ID, NoDoc when the variable is empty
    results,    \* fetch_all_notion_rows: rows accumulated so far
    cursor,     \* fetch_all_notion_rows: cursor of the next request, NoCursor = None
    rows,       \* main: the fetched rows
    i,          \* main: 1-based index of the row being processed
    repl,       \* main: placeholder map of the current row
    safe_name,  \* main: slug of the current row
    new_doc_id, \* main: ID returned by the current row's copy
    served,     \* Notion service: the pages it has answered with, in order
    docs,       \* Drive/Docs service: document ID -> [name, body]
    files,      \* OUTPUT_DIR: file name -> bytes
    calls,      \* every remote call and file write issued so far, in order
    fn_pc,      \* position of a pure-function harness: "none", "call", "ret"
    fn_arg,     \* argument of the function under check
    fn_ret      \* value returned by the function under check

fnvars == <<fn_pc, fn_arg, fn_ret>>
mainvars == <<pc, err, DELETE_INTERMEDIATE_DOCS, GOOGLE_TEMPLATE_DOC_ID, results, cursor,
              rows, i, repl, safe_name, new_doc_id, served, docs, files, calls>>
vars == <<mainvars, fnvars>>

(***************************************************************************)
(* Bounds                                                                  *)
(***************************************************************************)
MaxShort == 3       \* longest exhaustively enumerated slugify input
MaxExtra == 2       \* how far long slugify inputs exceed the truncation length

(***************************************************************************)
(* Characters and strings                                                  *)
(***************************************************************************)
\* characters matched by \w (letters, digits, underscore) that the model uses
WordChars ==
    {"a", "b", "X", "_", "0", "1", "2", "3", "4", "5", "6", "7", "8", "9",
     "d", "o", "c", "u", "m", "e", "n", "t", "r", "w", "p", "f", "P", "D", "F",
     "T", "R", "U", "E", "A", "L", "S", "N", "s"}
\* characters matched by \s (and removed by str.strip)
SpaceChars == {" ", "\t", "\n"}

IsWord(c) == c \in WordChars
IsSpace(c) == c \in SpaceChars

Min(a, b) == IF a < b THEN a ELSE b

\* str.strip(): drop the whitespace before the first and after the last
\* non-whitespace character
Strip(s) ==
    LET idx == {k \in 1..Len(s) : ~IsSpace(s[k])}
    IN  IF idx = {} THEN <<>>
        ELSE SubSeq(s, CHOOSE k \in idx : \A j \in idx : k <= j,
                       CHOOSE k \in idx : \A j \in idx : k >= j)

\* all sequences over A of length at most n
RECURSIVE SeqsUpTo(_, _)
SeqsUpTo(A, n) ==
    IF n = 0 THEN {<<>>}
    ELSE LET S == SeqsUpTo(A, n - 1)
         IN  S \cup {Append(s, x) : s \in S, x \in A}

\* s[:n]
Prefix(s, n) == SubSeq(s, 1, Min(Len(s), n))

(***************************************************************************)
(* slugify                                                                 *)
(***************************************************************************)
MaxSlugLen == 120
DefaultSlug == <<"d", "o", "c", "u", "m", "e", "n", "t">>

\* character class [\w\- ] of the first substitution
SlugKeep(c) == IsWord(c) \/ c = "-" \/ c = " "

\* re.sub(r"[^\w\- ]+", "", s)
RemoveDisallowed(s) == SelectSeq(s, SlugKeep)

\* re.sub(r"\s+", "_", s): every maximal whitespace run becomes one underscore
\* (the first character of a run is rewritten, the rest of the run is dropped)
CollapseSpace(s) ==
    LET sub == [k \in 1..Len(s) |->
                  IF ~IsSpace(s[k]) THEN <<s[k]>>
                  ELSE IF k > 1 /\ IsSpace(s[k - 1]) THEN <<>> ELSE <<"_">>]
        keep == SelectSeq(sub, LAMBDA x : x # <<>>)
    IN  [k \in 1..Len(keep) |-> keep[k][1]]

SlugClean(s) == CollapseSpace(RemoveDisallowed(Strip(s)))

\* variant: the slug is returned without the [:120] cut
slugify_untruncated(s) ==
    LET c == SlugClean(s)
    IN  IF c # <<>> THEN c ELSE DefaultSlug

slugify(s) ==
    LET c == SlugClean(s)
    IN  IF c # <<>> THEN Prefix(c, MaxSlugLen) ELSE DefaultSlug

(***************************************************************************)
(* Python values.  Type discriminators and dictionary keys are TLA+        *)
(* strings; text is a sequence of characters.                              *)
(***************************************************************************)
None == [k |-> "none"]
PStr(s) == [k |-> "str", s |-> s]
PNum(n) == [k |-> "num", n |-> n]
PBool(b) == [k |-> "bool", b |-> b]
PList(xs) == [k |-> "list", items |-> xs]
PDict(d) == [k |-> "dict", d |-> d]
\* an uncaught exception (KeyError, TypeError, AttributeError)
Raise == [k |-> "raise"]

\* Python truthiness
Truthy(v) ==
    CASE v.k = "none" -> FALSE
      [] v.k = "str"  -> v.s # <<>>
      [] v.k = "num"  -> v.n # 0
      [] v.k = "bool" -> v.b
      [] v.k = "list" -> v.items # <<>>
      [] v.k = "dict" -> DOMAIN v.d # {}
      [] OTHER        -> FALSE

\* d.get(key, default) on a dict value
Get(v, key, default) == IF key \in DOMAIN v.d THEN v.d[key] ELSE default

\* for x in (v or [])
Items(v) == IF Truthy(v) THEN v.items ELSE <<>>

DigitChar(d) == <<"0", "1", "2", "3", "4", "5", "6", "7", "8", "9">>[d + 1]

RECURSIVE NatStr(_)
NatStr(n) == IF n < 10 THEN <<DigitChar(n)>> ELSE NatStr(n \div 10) \o <<DigitChar(n % 10)>>

\* str(n) of an int
IntStr(n) == IF n < 0 THEN <<"-">> \o NatStr(0 - n) ELSE NatStr(n)

\* insertion order of the keys of the dicts whose repr the model needs
KeyOrder == <<"start", "end">>
KeyChars(key) ==
    CASE key = "start" -> <<"s", "t", "a", "r", "t">>
      [] key = "end"   -> <<"e", "n", "d">>

\* repr() of a scalar value
ReprScalar(v) ==
    CASE v.k = "none" -> <<"N", "o", "n", "e">>
      [] v.k = "str"  -> <<"'">> \o v.s \o <<"'">>
      [] v.k = "num"  -> IntStr(v.n)
      [] v.k = "bool" -> IF v.b THEN <<"T", "r", "u", "e">> ELSE <<"F", "a", "l", "s", "e">>

RECURSIVE ReprEntries(_, _, _)
ReprEntries(d, keys, first) ==
    IF keys = <<>> THEN <<>>
    ELSE IF Head(keys) \notin DOMAIN d THEN ReprEntries(d, Tail(keys), first)
    ELSE (IF first THEN <<>> ELSE <<",", " ">>)
         \o <<"'">> \o KeyChars(Head(keys)) \o <<"'", ":", " ">>
         \o ReprScalar(d[Head(keys)])
         \o ReprEntries(d, Tail(keys), FALSE)

\* str(v)
PyStr(v) ==
    CASE v.k = "str"  -> v.s
      [] v.k = "dict" -> <<"{">> \o ReprEntries(v.d, KeyOrder, TRUE) \o <<"}">>
      [] OTHER        -> ReprScalar(v)

\* sep.join(xs): TypeError unless every item is a str
RECURSIVE JoinStrs(_, _)
JoinStrs(sep, xs) ==
    IF xs = <<>> THEN <<>>
    ELSE IF Len(xs) = 1 THEN xs[1].s
    ELSE xs[1].s \o sep \o JoinStrs(sep, Tail(xs))

Join(sep, xs) ==
    IF \A j \in 1..Len(xs) : xs[j].k = "str" THEN PStr(JoinStrs(sep, xs)) ELSE Raise

CommaSpace == <<",", " ">>

(***************************************************************************)
(* Property Normalizer                                                     *)
(***************************************************************************)
\* variant: iterates over rich itself, so a null payload raises TypeError
rich_plain_text_noguard(rich) ==
    IF rich.k # "list" THEN Raise
    ELSE Join(<<>>, [j \in 1..Len(rich.items) |-> Get(rich.items[j], "plain_text", PStr(<<>>))])

rich_plain_text(rich) ==
    LET xs == Items(rich)
    IN  Join(<<>>, [j \in 1..Len(xs) |-> Get(xs[j], "plain_text", PStr(<<>>))])

\* v["name"]
NameOf(v) == IF "name" \in DOMAIN v.d THEN v.d["name"] ELSE Raise

notion_prop_to_str(prop) ==
    IF "type" \notin DOMAIN prop THEN PStr(<<>>)
    ELSE
    LET t == prop["type"]
        v == IF t \in DOMAIN prop THEN prop[t] ELSE None
    IN  CASE t \in {"title", "rich_text"} -> rich_plain_text(v)
          [] t = "number" -> IF v = None THEN PStr(<<>>) ELSE PStr(PyStr(v))
          [] t = "checkbox" ->
                IF Truthy(v) THEN PStr(<<"T", "R", "U", "E">>)
                ELSE PStr(<<"F", "A", "L", "S", "E">>)
          [] t \in {"select", "status"} -> IF Truthy(v) THEN NameOf(v) ELSE PStr(<<>>)
          [] t = "multi_select" ->
                LET xs == Items(v)
                IN  Join(CommaSpace, [j \in 1..Len(xs) |-> NameOf(xs[j])])
          [] t = "date" -> IF Truthy(v) THEN Get(v, "start", PStr(<<>>)) ELSE PStr(<<>>)
          [] t \in {"email", "phone_number", "url"} -> IF Truthy(v) THEN v ELSE PStr(<<>>)
          [] t = "people" ->
                LET xs == Items(v)
                IN  Join(CommaSpace,
                         [j \in 1..Len(xs) |->
                            LET nm == Get(xs[j], "name", None)
                            IN  IF Truthy(nm) THEN nm ELSE PStr(<<>>)])
          [] t = "relation" ->
                LET xs == Items(v)
                IN  Join(CommaSpace, [j \in 1..Len(xs) |-> Get(xs[j], "id", PStr(<<>>))])
          [] t = "formula" ->
                LET d == IF Truthy(v) THEN v ELSE PDict(<<>>)
                IN  IF "type" \notin DOMAIN d.d THEN PStr(<<>>)
                    ELSE LET fv == Get(d, d.d["type"], None)
                         IN  IF Truthy(fv) THEN PStr(PyStr(fv)) ELSE PStr(<<>>)
          [] OTHER -> IF v # None THEN PStr(PyStr(v)) ELSE PStr(<<>>)

(***************************************************************************)
(* Placeholder Mapper and the naming steps of main()                       *)
(***************************************************************************)
\* f"{{{{{col}}}}}"
Placeholder(col) == <<"{{", col, "}}">>

\* page.get("properties", {})
Properties(page) == IF "properties" \in DOMAIN page THEN page["properties"] ELSE <<>>

row_to_placeholder_map(page) ==
    LET props == Properties(page)
    IN  [ph \in {Placeholder(col) : col \in DOMAIN props} |-> notion_prop_to_str(props[ph[2]])]

preferred_cols == <<"Invoice #", "Invoice", "Name", "Title", "ID">>

\* repl.get(ph, "")
ReplGet(r, ph) == IF ph \in DOMAIN r THEN r[ph].s ELSE <<>>

\* variant: the candidate test does not strip, so a blank value ends the loop
RECURSIVE PickBase_nostrip(_, _)
PickBase_nostrip(r, cols) ==
    IF cols = <<>> THEN None
    ELSE LET val == ReplGet(r, Placeholder(Head(cols)))
         IN  IF val # <<>> THEN PStr(Strip(val)) ELSE PickBase_nostrip(r, Tail(cols))

\* the loop over preferred_cols: the stripped value of the first candidate
\* whose stripped value is non-empty, None when the loop ends without a break
RECURSIVE PickBase(_, _)
PickBase(r, cols) ==
    IF cols = <<>> THEN None
    ELSE LET val == Strip(ReplGet(r, Placeholder(Head(cols))))
         IN  IF val # <<>> THEN PStr(val) ELSE PickBase(r, Tail(cols))

RowPrefix == <<"r", "o", "w", "_">>

base_name(r, idx) ==
    LET b == PickBase(r, preferred_cols)
    IN  IF Truthy(b) THEN b.s ELSE RowPrefix \o IntStr(idx)

TitlePrefix == <<"P", "D", "F", "_">>
PdfSuffix == <<".", "p", "d", "f">>

new_title(slug) == TitlePrefix \o slug
pdf_name(slug) == slug \o PdfSuffix

(***************************************************************************)
(* The run: main() and the services it talks to                            *)
(***************************************************************************)
MaxRows == 2        \* most rows the Notion service returns in a run
MaxPages == 3       \* most pages the Notion service splits them into

NoDoc == 0 - 1
NoCursor == 0
TemplateId == 0

Prop(t, v) == ("type" :> t) @@ (t :> v)
\* a property object without the key of its type
AbsentProp(t) == ("type" :> t)

\* rows of the database: no columns, an invoice number, a blank invoice number
\* with a name, and both
TextProp(t, s) == Prop(t, PList(<<PDict([plain_text |-> PStr(s)])>>))
BlankInvoice == [c \in {"Invoice #"} |-> TextProp("rich_text", <<" ", "\t">>)]
InvoiceX == [c \in {"Invoice #"} |-> TextProp("rich_text", <<"X">>)]
NameX == [c \in {"Name"} |-> TextProp("title", <<" ", "X", "#">>)]
RowPool == {[properties |-> cells] : cells \in {<<>>, InvoiceX, BlankInvoice @@ NameX, InvoiceX @@ NameX}}

\* body of the template: literal text and placeholders
Lit(s) == [ph |-> FALSE, text |-> s]
Tok(col) == [ph |-> TRUE, text |-> Placeholder(col)]
TemplateBody == <<Lit(<<"N", "o", " ">>), Tok("Invoice #"), Tok("Name"), Tok("Total"), Tok("Name")>>
TemplateName == <<"T">>

\* replaceAllText requests of one batchUpdate, applied to a document body
ReplaceAll(body, r) ==
    [k \in 1..Len(body) |->
        IF body[k].ph /\ body[k].text \in DOMAIN r THEN Lit(r[body[k].text].s) ELSE body[k]]

\* one entry of the call log: operation, target document, row index, a count
\* (cursor sent, number of replacement requests), returned document ID,
\* a name (copy title, output file name) and whether the call succeeded
Call(op, doc, row, n, ret, name, ok) ==
    [op |-> op, doc |-> doc, row |-> row, n |-> n, ret |-> ret, name |-> name, ok |-> ok]

Init ==
    /\ pc = "main"
    /\ err = ""
    /\ DELETE_INTERMEDIATE_DOCS \in BOOLEAN
    /\ GOOGLE_TEMPLATE_DOC_ID \in {TemplateId, NoDoc}
    /\ results = <<>>
    /\ cursor = NoCursor
    /\ rows = <<>>
    /\ i = 0
    /\ repl = <<>>
    /\ safe_name = <<>>
    /\ new_doc_id = NoDoc
    /\ served = <<>>
    /\ docs = (TemplateId :> [name |-> TemplateName, body |-> TemplateBody])
    /\ files = <<>>
    /\ calls = <<>>
    /\ fn_pc = "none"
    /\ fn_arg = None
    /\ fn_ret = None

\* die(msg) and any uncaught exception: the process ends
Die(msg) ==
    /\ pc' = "dead"
    /\ err' = msg


\* google_clients_from_token_json: the secret is missing, not JSON, valid,
\* expired with a refresh token (refreshed inside the auth library, which may
\* fail), or invalid without one
TokenStates == {"missing", "badjson", "valid", "expired", "norefresh"}

GoogleClients ==
    /\ pc = "main"
    /\ \E tok \in TokenStates, ok \in BOOLEAN :
         CASE tok = "missing" ->
                /\ Die("GOOGLE_TOKEN_JSON missing")
                /\ UNCHANGED calls
           [] tok = "badjson" ->
                /\ Die("GOOGLE_TOKEN_JSON is not valid JSON")
                /\ UNCHANGED calls
           [] tok = "norefresh" ->
                /\ Die("Google credentials invalid and cannot refresh")
                /\ UNCHANGED calls
           [] tok = "valid" ->
                /\ pc' = "fetch"
                /\ UNCHANGED <<err, calls>>
           [] tok = "expired" ->
                /\ IF ok THEN pc' = "fetch" /\ UNCHANGED err ELSE Die("exception")
                /\ UNCHANGED calls
    /\ UNCHANGED <<DELETE_INTERMEDIATE_DOCS, GOOGLE_TEMPLATE_DOC_ID, results, cursor, rows, i,
                   repl, safe_name, new_doc_id, served, docs, files, fnvars>>

\* fetch_all_notion_rows up to the loop: the two configuration checks
FetchStart ==
    /\ pc = "fetch"
    /\ \E NOTION_TOKEN \in BOOLEAN, NOTION_DATABASE_ID \in BOOLEAN :
         IF ~NOTION_TOKEN THEN Die("NOTION_TOKEN is missing") /\ UNCHANGED <<results, cursor>>
         ELSE IF ~NOTION_DATABASE_ID
              THEN Die("NOTION_DATABASE_ID is missing") /\ UNCHANGED <<results, cursor>>
         ELSE /\ results' = <<>>
              /\ cursor' = NoCursor
              /\ pc' = "page"
              /\ UNCHANGED err
    /\ UNCHANGED <<DELETE_INTERMEDIATE_DOCS, GOOGLE_TEMPLATE_DOC_ID, rows, i, repl, safe_name,
                   new_doc_id, served, docs, files, calls, fnvars>>

Statuses == {200, 400, 500}

\* answers the Notion service can give to the next page request
Responses ==
    {[status |-> 200, results |-> rs, has_more |-> hm,
      next_cursor |-> IF hm THEN Len(served) + 1 ELSE NoCursor] :
        rs \in SeqsUpTo(RowPool, MaxRows - Len(results)),
        hm \in IF Len(served) + 1 < MaxPages THEN BOOLEAN ELSE {FALSE}}
    \cup {[status |-> st, results |-> <<>>, has_more |-> FALSE, next_cursor |-> NoCursor] :
        st \in Statuses \ {200}}

\* variant: only server errors are treated as failures
FetchFailed_server_only(status) == status >= 500

\* r.status_code >= 400
FetchFailed(status) == status >= 400

\* variant: each page replaces the accumulated rows
Extend_replace(acc, page) == page

\* results.extend(data.get("results", []))
Extend(acc, page) == acc \o page

\* if not data.get("has_more"): break
LastPage(data) == ~data.has_more

\* one iteration of the while loop: request a page, then die, stop or continue
FetchPage ==
    /\ pc = "page"
    /\ \E r \in Responses :
         /\ served' = Append(served, r)
         /\ calls' = Append(calls, Call("query", NoDoc, 0, cursor, NoDoc, <<>>, r.status < 400))
         /\ IF FetchFailed(r.status)
            THEN Die("Notion API error") /\ UNCHANGED <<results, cursor, rows>>
            ELSE /\ results' = Extend(results, r.results)
                 /\ UNCHANGED err
                 /\ IF LastPage(r)
                    THEN pc' = "fetched" /\ rows' = results' /\ UNCHANGED cursor
                    ELSE pc' = "page" /\ cursor' = r.next_cursor /\ UNCHANGED rows
    /\ UNCHANGED <<DELETE_INTERMEDIATE_DOCS, GOOGLE_TEMPLATE_DOC_ID, i, repl, safe_name,
                   new_doc_id, docs, files, fnvars>>

\* variant: the empty-result check is missing
NoRows_never(rs) == FALSE

\* if not rows
NoRows(rs) == rs = <<>>

\* variant: the loop stops one row early
AfterRow_short(idx) ==
    IF idx < Len(rows) - 1 THEN pc' = "row" /\ i' = idx + 1 ELSE pc' = "done" /\ i' = idx

\* position after row idx: the next row, or the end of the for loop
AfterRow(idx) ==
    IF idx < Len(rows) THEN pc' = "row" /\ i' = idx + 1 ELSE pc' = "done" /\ i' = idx

CheckRows ==
    /\ pc = "fetched"
    /\ IF NoRows(rows) THEN Die("No rows found in Notion database.") /\ UNCHANGED i
       ELSE AfterRow(0) /\ UNCHANGED err
    /\ UNCHANGED <<DELETE_INTERMEDIATE_DOCS, GOOGLE_TEMPLATE_DOC_ID, results, cursor, rows,
                   repl, safe_name, new_doc_id, served, docs, files, calls, fnvars>>

\* ID the Drive service gives to the next copy
NextDocId == 1 + Cardinality({k \in DOMAIN calls : calls[k].op = "copy" /\ calls[k].ok})

\* start of a loop iteration: placeholder map, base name, slug, title, copy
CopyTemplate ==
    /\ pc = "row"
    /\ LET r == row_to_placeholder_map(rows[i])
           slug == slugify(base_name(r, i))
       IN  IF \E ph \in DOMAIN r : r[ph].k # "str"
           THEN Die("exception") /\ UNCHANGED <<repl, safe_name, new_doc_id, docs, calls>>
           ELSE
           /\ repl' = r
           /\ safe_name' = slug
           /\ IF GOOGLE_TEMPLATE_DOC_ID = NoDoc
              THEN Die("GOOGLE_TEMPLATE_DOC_ID missing") /\ UNCHANGED <<new_doc_id, docs, calls>>
              ELSE \E ok \in BOOLEAN :
                   /\ calls' = Append(calls, Call("copy", GOOGLE_TEMPLATE_DOC_ID, i, 0,
                                                  IF ok THEN NextDocId ELSE NoDoc,
                                                  new_title(slug), ok))
                   /\ IF ok
                      THEN /\ docs' = docs @@ (NextDocId :>
                                        [name |-> new_title(slug),
                                         body |-> docs[GOOGLE_TEMPLATE_DOC_ID].body])
                           /\ new_doc_id' = NextDocId
                           /\ pc' = "replace"
                           /\ UNCHANGED err
                      ELSE Die("exception") /\ UNCHANGED <<new_doc_id, docs>>
    /\ UNCHANGED <<DELETE_INTERMEDIATE_DOCS, GOOGLE_TEMPLATE_DOC_ID, results, cursor, rows, i,
                   served, files, fnvars>>

\* variant: the replacement is applied to the template instead of the copy
ReplacePlaceholders_template ==
    /\ pc = "replace"
    /\ \E ok \in BOOLEAN :
         /\ calls' = Append(calls, Call("batchUpdate", GOOGLE_TEMPLATE_DOC_ID, i,
                                        Cardinality(DOMAIN repl), NoDoc, <<>>, ok))
         /\ IF ok
            THEN /\ docs' = [docs EXCEPT ![GOOGLE_TEMPLATE_DOC_ID].body = ReplaceAll(@, repl)]
                 /\ pc' = "export"
                 /\ UNCHANGED err
            ELSE Die("exception") /\ UNCHANGED docs
    /\ UNCHANGED <<DELETE_INTERMEDIATE_DOCS, GOOGLE_TEMPLATE_DOC_ID, results, cursor, rows, i,
                   repl, safe_name, new_doc_id, served, files, fnvars>>

\* replace_placeholders: one batchUpdate with one request per entry of the map
ReplacePlaceholders ==
    /\ pc = "replace"
    /\ \E ok \in BOOLEAN :
         /\ calls' = Append(calls, Call("batchUpdate", new_doc_id, i,
                                        Cardinality(DOMAIN repl), NoDoc, <<>>, ok))
         /\ IF ok
            THEN /\ docs' = [docs EXCEPT ![new_doc_id].body = ReplaceAll(@, repl)]
                 /\ pc' = "export"
                 /\ UNCHANGED err
            ELSE Die("exception") /\ UNCHANGED docs
    /\ UNCHANGED <<DELETE_INTERMEDIATE_DOCS, GOOGLE_TEMPLATE_DOC_ID, results, cursor, rows, i,
                   repl, safe_name, new_doc_id, served, files, fnvars>>

\* variant: an existing file is kept
write_bytes_keep(fs, path, data) ==
    [p \in DOMAIN fs \cup {path} |-> IF p \in DOMAIN fs THEN fs[p] ELSE data]

\* out_path.write_bytes(data): create the file or replace its content
write_bytes(fs, path, data) ==
    [p \in DOMAIN fs \cup {path} |-> IF p = path THEN data ELSE fs[p]]

\* variant: the toggle is ignored
ShouldDelete_always == TRUE

\* if DELETE_INTERMEDIATE_DOCS
ShouldDelete == DELETE_INTERMEDIATE_DOCS

\* export_pdf, then the cleanup test
ExportPdf ==
    /\ pc = "export"
    /\ \E ok \in BOOLEAN :
         IF ok
         THEN /\ calls' = calls \o <<Call("export", new_doc_id, i, 0, NoDoc, <<>>, TRUE),
                                     Call("write", new_doc_id, i, 0, NoDoc, pdf_name(safe_name), TRUE)>>
              /\ files' = write_bytes(files, pdf_name(safe_name), docs[new_doc_id].body)
              /\ IF ShouldDelete THEN pc' = "delete" /\ UNCHANGED i ELSE AfterRow(i)
              /\ UNCHANGED err
         ELSE /\ calls' = Append(calls, Call("export", new_doc_id, i, 0, NoDoc, <<>>, FALSE))
              /\ Die("exception")
              /\ UNCHANGED <<files, i>>
    /\ UNCHANGED <<DELETE_INTERMEDIATE_DOCS, GOOGLE_TEMPLATE_DOC_ID, results, cursor, rows,
                   repl, safe_name, new_doc_id, served, docs, fnvars>>

\* drive.files().delete(fileId=new_doc_id).execute()
DeleteDoc ==
    /\ pc = "delete"
    /\ \E ok \in BOOLEAN :
         /\ calls' = Append(calls, Call("delete", new_doc_id, i, 0, NoDoc, <<>>, ok))
         /\ IF ok
            THEN /\ docs' = [d \in DOMAIN docs \ {new_doc_id} |-> docs[d]]
                 /\ AfterRow(i)
                 /\ UNCHANGED err
            ELSE Die("exception") /\ UNCHANGED <<docs, i>>
    /\ UNCHANGED <<DELETE_INTERMEDIATE_DOCS, GOOGLE_TEMPLATE_DOC_ID, results, cursor, rows,
                   repl, safe_name, new_doc_id, served, files, fnvars>>

Next ==
    \/ GoogleClients
    \/ FetchStart
    \/ FetchPage
    \/ CheckRows
    \/ CopyTemplate
    \/ ReplacePlaceholders
    \/ ExportPdf
    \/ DeleteDoc

Spec == Init /\ [][Next]_vars

(***************************************************************************)
(* Function harnesses: main() is not running, one function is applied to   *)
(* an input drawn in the initial state                                     *)
(***************************************************************************)
MainIdle ==
    /\ pc = "idle"
    /\ err = ""
    /\ DELETE_INTERMEDIATE_DOCS = TRUE
    /\ GOOGLE_TEMPLATE_DOC_ID = TemplateId
    /\ results = <<>>
    /\ cursor = NoCursor
    /\ rows = <<>>
    /\ i = 0
    /\ repl = <<>>
    /\ safe_name = <<>>
    /\ new_doc_id = NoDoc
    /\ served = <<>>
    /\ docs = <<>>
    /\ files = <<>>
    /\ calls = <<>>

(***************************************************************************)
(* Harness for slugify: the input is drawn in Init, one action applies it   *)
(***************************************************************************)
SlugAlphabet == {"a", "_", "-", " ", "\t", "#"}

Fill(c, n) == [k \in 1..n |-> c]

SlugInputs ==
    SeqsUpTo(SlugAlphabet, MaxShort)
    \cup {p \o Fill(c, n) \o q :
            p \in SeqsUpTo(SlugAlphabet, 1), q \in SeqsUpTo(SlugAlphabet, 1),
            c \in SlugAlphabet,
            n \in (MaxSlugLen - 2)..(MaxSlugLen + MaxExtra)}

InitSlug ==
    /\ MainIdle
    /\ fn_pc = "call"
    /\ fn_arg \in SlugInputs
    /\ fn_ret = <<>>

CallSlugify ==
    /\ fn_pc = "call"
    /\ fn_ret' = slugify(fn_arg)
    /\ fn_pc' = "ret"
    /\ UNCHANGED <<fn_arg, mainvars>>

NextSlug == CallSlugify

SpecSlug == InitSlug /\ [][NextSlug]_vars

(***************************************************************************)
(* Harness for notion_prop_to_str: property objects as the Notion API      *)
(* delivers them, plus the same kinds with a null or missing payload       *)
(***************************************************************************)
SupportedKinds ==
    {"title", "rich_text", "number", "checkbox", "select", "multi_select", "date",
     "email", "phone_number", "url", "people", "relation", "formula", "status"}

SampleTexts == {<<"a">>, <<"b", " ">>, <<>>}
TextRuns == {PDict([plain_text |-> PStr(s)]) : s \in SampleTexts}
Options == {PDict([name |-> PStr(s)]) : s \in {<<"a">>, <<"X">>}}
Persons == {PDict([name |-> PStr(<<"a">>)]), PDict([name |-> None]), PDict([id |-> PStr(<<"1">>)])}
Relations == {PDict([id |-> PStr(s)]) : s \in {<<"1">>, <<"2">>}}
DateValues == {PDict([start |-> PStr(<<"2", "0">>), end |-> e]) : e \in {None, PStr(<<"2", "1">>)}}
Numbers == {0, 7, 42, 0 - 3}
FormulaValues ==
    {PDict([type |-> "string", string |-> x]) : x \in {None, PStr(<<>>), PStr(<<"a">>)}}
    \cup {PDict([type |-> "number", number |-> x]) : x \in {None} \cup {PNum(n) : n \in Numbers}}
    \cup {PDict([type |-> "boolean", boolean |-> x]) : x \in {None, PBool(TRUE), PBool(FALSE)}}
    \cup {PDict([type |-> "date", date |-> x]) : x \in {None} \cup DateValues}

\* well-formed payloads of a kind; MaxItems bounds the list-valued ones
MaxItems == 2
Payloads(t) ==
    CASE t \in {"title", "rich_text"} -> {PList(xs) : xs \in SeqsUpTo(TextRuns, MaxItems)}
      [] t = "number" -> {PNum(n) : n \in Numbers}
      [] t = "checkbox" -> {PBool(TRUE), PBool(FALSE)}
      [] t \in {"select", "status"} -> Options
      [] t = "multi_select" -> {PList(xs) : xs \in SeqsUpTo(Options, MaxItems)}
      [] t = "date" -> DateValues
      [] t \in {"email", "phone_number", "url"} -> {PStr(s) : s \in SampleTexts}
      [] t = "people" -> {PList(xs) : xs \in SeqsUpTo(Persons, MaxItems)}
      [] t = "relation" -> {PList(xs) : xs \in SeqsUpTo(Relations, MaxItems)}
      [] t = "formula" -> FormulaValues
      [] OTHER -> {PStr(<<"a">>), PNum(7)}

AllKinds == SupportedKinds \cup {"created_time"}

NormInputs ==
    {[id |-> "x"]}
    \cup {AbsentProp(t) : t \in AllKinds}
    \cup {Prop(t, None) : t \in AllKinds}
    \cup UNION {{Prop(t, v) : v \in Payloads(t)} : t \in AllKinds}

InitNorm ==
    /\ MainIdle
    /\ fn_pc = "call"
    /\ fn_arg \in NormInputs
    /\ fn_ret = None

CallNormalize ==
    /\ fn_pc = "call"
    /\ fn_ret' = notion_prop_to_str(fn_arg)
    /\ fn_pc' = "ret"
    /\ UNCHANGED <<fn_arg, mainvars>>

NextNorm == CallNormalize

SpecNorm == InitNorm /\ [][NextNorm]_vars

\* the payload of the property is missing or null
NullPayload(prop) ==
    "type" \in DOMAIN prop /\ (prop["type"] \notin DOMAIN prop \/ prop[prop["type"]] = None)


(***************************************************************************)
(* Harness for the naming steps of a loop iteration (lines 223-242)        *)
(***************************************************************************)
MaxIndex == 2       \* largest row index tried by the naming harness

\* cell texts with their trimmed form written out
CellTexts ==
    {[raw |-> <<>>, trimmed |-> <<>>],
     [raw |-> <<" ", "\t">>, trimmed |-> <<>>],
     [raw |-> <<"X">>, trimmed |-> <<"X">>],
     [raw |-> <<" ", "a", " ", "b", "\n">>, trimmed |-> <<"a", " ", "b">>]}

NameColumns == {"Invoice #", "Invoice", "Name", "Title", "ID", "Total"}

\* assignments of texts to some of the columns
CellMaps == UNION {[cols -> CellTexts] : cols \in SUBSET NameColumns}

PageOf(cells) == [properties |-> [c \in DOMAIN cells |-> TextProp("rich_text", cells[c].raw)]]

InitBase ==
    /\ MainIdle
    /\ fn_pc = "call"
    /\ fn_arg \in {[cells |-> cells, page |-> PageOf(cells), idx |-> n] :
                     cells \in CellMaps, n \in 1..MaxIndex}
    /\ fn_ret = None

CallNaming ==
    /\ fn_pc = "call"
    /\ LET r == row_to_placeholder_map(fn_arg.page)
           b == base_name(r, fn_arg.idx)
       IN  fn_ret' = [repl |-> r, base_name |-> b, safe_name |-> slugify(b),
                      new_title |-> new_title(slugify(b)), pdf_name |-> pdf_name(slugify(b))]
    /\ fn_pc' = "ret"
    /\ UNCHANGED <<fn_arg, mainvars>>

NextBase == CallNaming

SpecBase == InitBase /\ [][NextBase]_vars

(***************************************************************************)
(* Properties of the run                                                   *)
(***************************************************************************)
DocOps == {"copy", "batchUpdate", "export", "write", "delete"}

LastOf(s) == s[Len(s)]

\* the log restricted to the calls about documents and output files
DocCalls == SelectSeq(calls, LAMBDA c : c.op \in DocOps)

\* the Notion service has answered every request with success and its last
\* answer said that no more pages remain
FetchComplete ==
    /\ served # <<>>
    /\ \A k \in DOMAIN served : served[k].status < 400
    /\ ~LastOf(served).has_more

RECURSIVE Flatten(_)
Flatten(pages) == IF pages = <<>> THEN <<>> ELSE Head(pages).results \o Flatten(Tail(pages))

\* C1: when the fetch returns zero rows the run ends with the fatal error
\* "No rows found" and no copy, substitute, export, delete or file write is
\* ever issued.
C1_ZeroRowsAbort ==
    (FetchComplete /\ \A k \in DOMAIN served : served[k].results = <<>>)
        => /\ pc \in {"fetched", "dead"}
           /\ pc = "dead" => err = "No rows found in Notion database."
           /\ \A k \in DOMAIN calls : calls[k].op \notin DocOps
           /\ DOMAIN files = {}

C1_Witness ==
    /\ pc = "dead"
    /\ err = "No rows found in Notion database."
    /\ FetchComplete
    /\ Len(served) = 2

\* C2: a failed remote call ends the run in the same step: the run is dead,
\* no call or file write follows the failed call, and the output files
\* written before it are left as they were.
C2_FailureIsFatal ==
    [][/\ (Len(calls') > Len(calls) /\ ~LastOf(calls').ok) => (pc' = "dead" /\ files' = files)
       /\ (calls # <<>> /\ ~LastOf(calls).ok) => (calls' = calls /\ files' = files)
       /\ pc = "dead" => (pc' = "dead" /\ calls' = calls /\ files' = files)]_vars

C2_Witness ==
    /\ pc = "dead"
    /\ calls # <<>>
    /\ ~LastOf(calls).ok
    /\ LastOf(calls).op \in {"copy", "batchUpdate", "export", "delete"}
    /\ LastOf(calls).row = 2
    /\ DOMAIN files # {}

\* C3: with the cleanup toggle disabled no delete call is ever issued and
\* every document created by a copy still exists.
C3_NoCleanupNoDelete ==
    ~DELETE_INTERMEDIATE_DOCS
        => /\ \A k \in DOMAIN calls : calls[k].op # "delete"
           /\ \A k \in DOMAIN calls :
                (calls[k].op = "copy" /\ calls[k].ok) => calls[k].ret \in DOMAIN docs

C3_Witness ==
    /\ ~DELETE_INTERMEDIATE_DOCS
    /\ pc = "done"
    /\ Len(rows) = 2
    /\ Cardinality(DOMAIN docs) = 3

\* C4: n successful pages with has-more true on all but the last are fetched
\* with exactly n requests and the rows returned are the concatenation of the
\* pages in the order served.
C4_Pagination ==
    /\ pc = "page" =>
          /\ results = Flatten(served)
          /\ \A k \in DOMAIN served : served[k].has_more
    /\ FetchComplete =>
          /\ pc # "page"
          /\ rows = Flatten(served)
          /\ Cardinality({k \in DOMAIN calls : calls[k].op = "query"}) = Len(served)
          /\ \A k \in 1..(Len(served) - 1) : served[k].has_more

C4_Witness ==
    /\ pc = "fetched"
    /\ Len(served) = 3
    /\ served[1].has_more /\ served[2].has_more /\ ~served[3].has_more
    /\ served[1].results # <<>>
    /\ served[3].results # <<>>
    /\ served[1].results # served[3].results

\* calls of one row, in order
RowOps == IF DELETE_INTERMEDIATE_DOCS THEN <<"copy", "batchUpdate", "export", "write", "delete">>
          ELSE <<"copy", "batchUpdate", "export", "write">>

\* C9: every page request precedes every document call; the document calls
\* are, row after row in fetched order, copy, one batchUpdate with one
\* request per column of the row, export, the file write and (with cleanup)
\* delete; a completed run has issued all of them exactly once per row.
C9_SequentialRows ==
    /\ \A a, b \in DOMAIN calls :
          (calls[a].op \in DocOps /\ calls[b].op = "query") => b < a
    /\ \A k \in DOMAIN DocCalls :
          /\ DocCalls[k].op = RowOps[((k - 1) % Len(RowOps)) + 1]
          /\ DocCalls[k].row = ((k - 1) \div Len(RowOps)) + 1
          /\ DocCalls[k].row \in DOMAIN rows
          /\ DocCalls[k].op = "batchUpdate" =>
                DocCalls[k].n = Cardinality(DOMAIN Properties(rows[DocCalls[k].row]))
    /\ pc = "done" => Len(DocCalls) = Len(RowOps) * Len(rows)

C9_Witness ==
    /\ pc = "done"
    /\ Len(rows) = 2
    /\ DELETE_INTERMEDIATE_DOCS
    /\ Len(served) = 2
    /\ Cardinality(DOMAIN Properties(rows[1])) = 2
    /\ Cardinality(DOMAIN Properties(rows[2])) = 0

\* document ID returned by the successful copy of a row
CopyOf(row) ==
    {calls[k].ret : k \in {j \in DOMAIN calls : calls[j].op = "copy" /\ calls[j].ok /\ calls[j].row = row}}

\* C10: the template is only ever the source of a copy and is never changed
\* or deleted; substitute, export and delete of a row target the document
\* its own copy returned.
C10_TemplateReadOnly ==
    /\ \A k \in DOMAIN calls :
          /\ calls[k].op = "copy" => calls[k].doc = TemplateId
          /\ calls[k].op \in {"batchUpdate", "export", "delete"} =>
                /\ calls[k].doc # TemplateId
                /\ CopyOf(calls[k].row) = {calls[k].doc}
    /\ TemplateId \in DOMAIN docs
    /\ docs[TemplateId] = [name |-> TemplateName, body |-> TemplateBody]

C10_Witness ==
    /\ pc = "done"
    /\ DELETE_INTERMEDIATE_DOCS
    /\ Len(rows) = 2
    /\ DOMAIN docs = {TemplateId}

\* slug of row k of the fetched rows
SlugOfRow(k) == slugify(base_name(row_to_placeholder_map(rows[k]), k))
\* the document a row renders to
RenderOfRow(k) == ReplaceAll(TemplateBody, row_to_placeholder_map(rows[k]))

\* C8: two rows use the same output file name and the same document title
\* exactly when their slugs are equal; after a completed run there is one
\* file per distinct slug and it holds the rendering of the last row with
\* that slug.
C8_SlugCollision ==
    /\ \A a, b \in DOMAIN calls :
          (calls[a].op = calls[b].op /\ calls[a].op \in {"write", "copy"}) =>
              (calls[a].name = calls[b].name <=> SlugOfRow(calls[a].row) = SlugOfRow(calls[b].row))
    /\ pc = "done" =>
          /\ DOMAIN files = {pdf_name(SlugOfRow(k)) : k \in DOMAIN rows}
          /\ Cardinality(DOMAIN files) = Cardinality({SlugOfRow(k) : k \in DOMAIN rows})
          /\ \A k \in DOMAIN rows :
                (\A j \in DOMAIN rows : j > k => SlugOfRow(j) # SlugOfRow(k))
                    => files[pdf_name(SlugOfRow(k))] = RenderOfRow(k)

C8_Witness ==
    /\ pc = "done"
    /\ Len(rows) = 2
    /\ SlugOfRow(1) = SlugOfRow(2)
    /\ RenderOfRow(1) # RenderOfRow(2)
    /\ Cardinality(DOMAIN files) = 1

(***************************************************************************)
(* Properties of the functions                                             *)
(***************************************************************************)
Returned == fn_pc = "ret"

FalseText == <<"F", "A", "L", "S", "E">>

\* the statement of C5 as written: a string for every supported kind, and
\* the empty string for a missing or null payload of every such kind
C5_Original ==
    (Returned /\ "type" \in DOMAIN fn_arg /\ fn_arg["type"] \in SupportedKinds)
        => /\ fn_ret.k = "str"
           /\ NullPayload(fn_arg) => fn_ret = PStr(<<>>)

\* C5: for every supported kind notion_prop_to_str returns a string; for a
\* missing or null payload it returns "" for every kind but checkbox, and
\* "FALSE" for checkbox.
C5_Normalize ==
    (Returned /\ "type" \in DOMAIN fn_arg /\ fn_arg["type"] \in SupportedKinds)
        => /\ fn_ret.k = "str"
           /\ NullPayload(fn_arg) =>
                fn_ret = IF fn_arg["type"] = "checkbox" THEN PStr(FalseText) ELSE PStr(<<>>)

C5_Witness ==
    /\ Returned
    /\ fn_arg = Prop("checkbox", None)
    /\ fn_ret = PStr(FalseText)

AllowedInSlug(c) == IsWord(c) \/ c = "-"

\* the statement of C6 as written: only allowed characters, the default for
\* an input of disallowed characters, and exactly 120 characters for every
\* input longer than 120
C6_Original ==
    Returned
        => /\ \A k \in DOMAIN fn_ret : AllowedInSlug(fn_ret[k])
           /\ (\A k \in DOMAIN fn_arg : ~SlugKeep(fn_arg[k])) => fn_ret = DefaultSlug
           /\ Len(fn_arg) > 120 => Len(fn_ret) = 120

\* C6: a slug holds only word characters and hyphens, is the default
\* "document" for an input of disallowed characters, never exceeds 120
\* characters, and is exactly the first 120 characters of an input longer
\* than 120 made only of word characters and hyphens.
C6_Slug ==
    Returned
        => /\ \A k \in DOMAIN fn_ret : AllowedInSlug(fn_ret[k])
           /\ (\A k \in DOMAIN fn_arg : ~SlugKeep(fn_arg[k])) => fn_ret = DefaultSlug
           /\ Len(fn_ret) <= 120
           /\ (Len(fn_arg) > 120 /\ \A k \in DOMAIN fn_arg : AllowedInSlug(fn_arg[k]))
                 => fn_ret = SubSeq(fn_arg, 1, 120)

C6_Witness ==
    /\ Returned
    /\ Len(fn_arg) = 122
    /\ \A k \in DOMAIN fn_arg : AllowedInSlug(fn_arg[k])
    /\ fn_arg[1] # fn_arg[2]
    /\ Len(fn_ret) = 120

PreferenceList == <<"Invoice #", "Invoice", "Name", "Title", "ID">>

\* positions of the preference list whose column is present and non-blank
Candidates(cells) ==
    {k \in 1..5 : PreferenceList[k] \in DOMAIN cells /\ cells[PreferenceList[k]].trimmed # <<>>}

\* C7: the base name is the trimmed value of the first preference column
\* that is present and non-blank, else row_<i>; a row with no such column at
\* index 1 gives the file name row_1.pdf.
C7_BaseName ==
    Returned
        => LET cand == Candidates(fn_arg.cells)
           IN  /\ cand # {} =>
                    \E k \in cand :
                       /\ \A j \in cand : k <= j
                       /\ fn_ret.base_name = fn_arg.cells[PreferenceList[k]].trimmed
               /\ cand = {} =>
                    /\ fn_ret.base_name = <<"r", "o", "w", "_", DigitChar(fn_arg.idx)>>
                    /\ fn_arg.idx = 1 =>
                          fn_ret.pdf_name = <<"r", "o", "w", "_", "1", ".", "p", "d", "f">>

C7_Witness ==
    /\ Returned
    /\ "Invoice #" \in DOMAIN fn_arg.cells
    /\ fn_arg.cells["Invoice #"].raw = <<" ", "\t">>
    /\ "Name" \in DOMAIN fn_arg.cells
    /\ fn_arg.cells["Name"].raw = <<" ", "a", " ", "b", "\n">>
    /\ "Invoice" \notin DOMAIN fn_arg.cells
    /\ fn_ret.base_name = <<"a", " ", "b">>

====
